---- MODULE Spec2Model ----
(***************************************************************************)
(* State-machine model of the radio helper commands of src/helpers.rs      *)
(* (do_transmit, do_receive, do_rssi, do_echo, do_ping_pong) running on    *)
(* top of the poll-based radio capability interface and the blocking       *)
(* adapter (BlockingTransmit / BlockingReceive).                           *)
(*                                                                         *)
(* One behaviour of the model is one invocation of one command: Init draws *)
(* the command and its options, every action is one step of the command    *)
(* (one hardware call together with the control flow that follows it), and *)
(* the radio's answers are chosen nondeterministically.                    *)
(***************************************************************************)
EXTENDS Integers, Sequences, FiniteSets

\* ------------------------------------------------------------------ bounds

\* Largest number of link-test rounds drawn for options.rounds.
MaxRounds == 2

\* Largest blocking timeout drawn for blocking_options.timeout (time units).
MaxTimeout == 2

\* Largest number of frames a continuous or repeating command handles before
\* the model stops following it (these loops are unbounded in the code).
MaxFrames == 2

\* Longest frame a peer sends to do_receive and do_echo.
MaxPayload == 2

\* ------------------------------------------------------- program constants

\* let mut buff = [0u8; 32] of do_ping_pong.
LinkBuffLen == 32

\* let n = 4 of do_ping_pong: the length of the encoded round index.
IndexLen == 4

\* ------------------------------------------------------------ input domains

\* RSSI values (i16) a ReceiveInfo or an appended suffix may carry.
RssiVals == {-90, 3}

\* Poll intervals drawn for blocking_options.poll_interval.
PollVals == {1}

\* Output power (i8) given with --power.
PowerVals == {10}

\* Payload bytes: byte j of a frame of family b.
PayloadByte(b, j) == (b + 151 * j) % 256

\* Frames a peer may send to do_receive and do_echo, and data given to
\* do_transmit: two families of every length up to MaxPayload.
Payloads ==
    {[j \in 1..k |-> PayloadByte(b, j)] : k \in 0..MaxPayload, b \in {0, 104}}

\* Option<T> is a sequence of length 0 (None) or 1 (Some(v)).
None == << >>
Some(v) == << v >>

\* ------------------------------------------------------- byte conversions

Zeros(k) == [j \in 1..k |-> 0]

\* write_u32 with the bytes in little-endian order.
WriteU32_LittleEndian(v) ==
    << v % 256, (v \div 256) % 256, (v \div 65536) % 256, (v \div 16777216) % 256 >>

\* NetworkEndian::write_u32: 4 bytes, most significant first.
WriteU32(v) ==
    << (v \div 16777216) % 256, (v \div 65536) % 256, (v \div 256) % 256, v % 256 >>

\* NetworkEndian::read_u32 of a slice of at least 4 bytes.
ReadU32(b) == b[1] * 16777216 + b[2] * 65536 + b[3] * 256 + b[4]

\* write_i16 with the bytes in little-endian order.
WriteI16_LittleEndian(v) ==
    LET u == (v + 65536) % 65536 IN << u % 256, u \div 256 >>

\* NetworkEndian::write_i16: 2 bytes, two's complement, most significant first.
WriteI16(v) ==
    LET u == (v + 65536) % 65536 IN << u \div 256, u % 256 >>

\* NetworkEndian::read_i16 of a slice of at least 2 bytes.
ReadI16(b) ==
    LET u == b[1] * 256 + b[2] IN IF u >= 32768 THEN u - 65536 ELSE u

\* dst[0..Len(src)] = src, the rest of dst unchanged.
Overwrite(dst, src) ==
    [j \in 1..Len(dst) |-> IF j <= Len(src) THEN src[j] ELSE dst[j]]

\* dst[at..at+Len(src)] = src (at is a 0-based offset).
OverwriteAt(dst, at, src) ==
    [j \in 1..Len(dst) |->
        IF j > at /\ j <= at + Len(src) THEN src[j - at] ELSE dst[j]]

\* &buf[lo..hi]
Slice(buf, lo, hi) == SubSeq(buf, lo + 1, hi)

\* ------------------------------------------------------------------ state

VARIABLES
    op,          \* the Operation variant being run
    options,     \* its option record (never changes)
    pc,          \* position of the command in its code
    i,           \* do_ping_pong: the round index of the for loop
    buff,        \* the byte buffer of the command
    n,           \* length returned by the last get_received (plus any suffix)
    info,        \* RSSI of the ReceiveInfo returned by the last get_received
    link_info,   \* do_ping_pong: LinkTestInfo
    c,           \* blocking adapter: poll time accumulated since start
    ret,         \* blocking adapter: outcome handed back to the caller
    result,      \* outcome of the command ("none" while it runs)
    inflight,    \* radio: operations started and not yet completed
    errSeen,     \* a capability call has reported a device error
    callAfterErr,\* a hardware call was issued after a reported device error
    interDelays, \* do_ping_pong: number of delay_us(options.delay) calls
    sentLog,     \* payloads handed to start_transmit, in order
    roundLog,    \* do_ping_pong: outcome of each finished round's receive
    pcap_writer, \* do_receive: the open capture sink, or None
    capture,     \* records written to the capture sink, in order
    clock,       \* wall clock read by SystemTime::now()
    delivered,   \* number of frames fetched with get_received
    frames,      \* the frames delivered to do_receive and do_echo, in order
    calls        \* what has been observed of the hardware calls issued

vars == << op, options, pc, i, buff, n, info, link_info, c, ret, result, inflight,
           errSeen, callAfterErr, interDelays, sentLog, roundLog,
           pcap_writer, capture, clock, delivered, frames, calls >>

\* The state only do_ping_pong writes, and the state only do_receive writes.
linkVars == << i, link_info, interDelays, roundLog >>
sinkVars == << pcap_writer, capture, clock >>

\* The hardware calls that are counted: each is issued a bounded number of
\* times in every run the model follows.
CountedCalls ==
    {"set_power", "start_receive", "poll_rssi", "delay_us(period)", "delay_us(delay)"}

\* Nothing has been called yet. last is the name of the most recent call,
\* count the number of calls of each counted name, polls the number of
\* completion checks the blocking adapter has made since its last start.
NoCalls == [last |-> "none", polls |-> 0, count |-> [k \in CountedCalls |-> 0]]

Ops == {"Transmit", "Receive", "Rssi", "Echo", "LinkTest"}

\* The unused fields of an option record keep a fixed value.
BaseOptions ==
    [power |-> None, period |-> None, continuous |-> FALSE, append_info |-> FALSE,
     parse_info |-> FALSE, rounds |-> 0, delay |-> 1, poll_interval |-> 1,
     timeout |-> 1, data |-> << >>, pcap |-> "none", path |-> "regular",
     cap |-> 0]

Powers == {None} \cup {Some(p) : p \in PowerVals}

BlockingOptionsSet ==
    {[poll_interval |-> p, timeout |-> t] : p \in PollVals, t \in 1..MaxTimeout}

\* The policies do_transmit is run with: also a poll interval of 2 and a
\* timeout one longer, so that an operation can complete at its second poll
\* before the deadline.
TransmitBlockingOptionsSet ==
    {[poll_interval |-> p, timeout |-> t] :
        p \in PollVals \cup {2}, t \in 1..(MaxTimeout + 1)}

\* PingPongOptions
PingPongOptions ==
    {[BaseOptions EXCEPT !.rounds = r, !.power = pw, !.parse_info = pi,
                         !.poll_interval = b.poll_interval, !.timeout = b.timeout] :
        r \in 0..MaxRounds, pw \in Powers, pi \in BOOLEAN, b \in BlockingOptionsSet}

\* TransmitOptions
TransmitOptions ==
    {[BaseOptions EXCEPT !.data = d, !.power = pw, !.period = pd,
                         !.poll_interval = b.poll_interval, !.timeout = b.timeout] :
        d \in Payloads, pw \in Powers, pd \in {None, Some(1)},
        b \in TransmitBlockingOptionsSet}

\* Capacities of the buffer handed to do_receive and do_echo: with and without
\* room for a 2-byte suffix after the longest frame.
Caps == {MaxPayload, MaxPayload + 2}

\* What the path given as pcap_file may name when the command starts: a
\* regular file (or nothing yet), or a fifo that already exists.
Paths(kind) == IF kind = "file" THEN {"regular", "fifo"} ELSE {"regular"}

\* The sinks a receive is run with: the kind the options give, and what the
\* path names.
Sinks ==
    {x \in {"none", "file", "pipe", "both"} \X {"regular", "fifo"} :
        x[2] \in Paths(x[1])}

\* ReceiveOptions (only poll_interval is read of its blocking_options), with
\* what the sink's path names.
ReceiveOptions ==
    {[BaseOptions EXCEPT !.continuous = ct, !.pcap = sk[1], !.path = sk[2],
                         !.cap = cp, !.poll_interval = p] :
        ct \in BOOLEAN, sk \in Sinks, cp \in Caps, p \in PollVals}

\* RssiOptions (its period, which is not optional, is held as Some(period))
RssiOptions ==
    {[BaseOptions EXCEPT !.continuous = ct, !.period = Some(pd)] :
        ct \in BOOLEAN, pd \in {1}}

\* EchoOptions
EchoOptions ==
    {[BaseOptions EXCEPT !.continuous = ct, !.power = pw, !.append_info = ai,
                         !.cap = cp,
                         !.poll_interval = b.poll_interval, !.timeout = b.timeout] :
        ct \in BOOLEAN, pw \in Powers, ai \in BOOLEAN, cp \in Caps,
        b \in BlockingOptionsSet}

OptionsOf(o) ==
    CASE o = "Transmit" -> TransmitOptions
      [] o = "Receive" -> ReceiveOptions
      [] o = "Rssi" -> RssiOptions
      [] o = "Echo" -> EchoOptions
      [] o = "LinkTest" -> PingPongOptions

NewLinkTestInfo(rounds) ==
    [sent |-> rounds, received |-> 0, local_rssi |-> << >>, remote_rssi |-> << >>]

\* Stats::update: the accumulator is modelled by the samples it was given.
StatsUpdate(stats, x) == Append(stats, x)

\* Where each command starts.
FirstPc(o) ==
    CASE o = "Transmit" -> "tx_power"
      [] o = "Receive" -> "rx_open"
      [] o = "Rssi" -> "rssi_start"
      [] o = "Echo" -> "echo_power"
      [] o = "LinkTest" -> "lt_power"

Init ==
    /\ op \in Ops
    /\ options \in OptionsOf(op)
    /\ pc = FirstPc(op)
    /\ i = 0
    /\ buff = IF op = "LinkTest" THEN Zeros(LinkBuffLen) ELSE Zeros(options.cap)
    /\ n = 0
    /\ info = 0
    /\ link_info = NewLinkTestInfo(options.rounds)
    /\ c = 0
    /\ ret = "none"
    /\ result = "none"
    /\ inflight = {}
    /\ errSeen = FALSE
    /\ callAfterErr = FALSE
    /\ interDelays = 0
    /\ sentLog = << >>
    /\ roundLog = << >>
    /\ pcap_writer = None
    /\ capture = << >>
    /\ clock = 0
    /\ delivered = 0
    /\ frames = << >>
    /\ calls = NoCalls

\* ------------------------------------------------------------ bookkeeping

\* The record of the calls after one more call, of the given name.
Note(cs, name) ==
    [last |-> name,
     polls |-> IF name \in {"start_transmit", "start_receive"} THEN 0
               ELSE IF name \in {"check_transmit", "check_receive"}
                       /\ pc \in {"bt_poll", "br_poll"}
               THEN cs.polls + 1
               ELSE cs.polls,
     count |-> [k \in CountedCalls |->
                  IF k = name THEN cs.count[k] + 1 ELSE cs.count[k]]]

\* A hardware call is issued; reportsErr says whether it reports a device error.
HwCall(name, reportsErr) ==
    /\ callAfterErr' = (callAfterErr \/ errSeen)
    /\ errSeen' = (errSeen \/ reportsErr)
    /\ calls' = Note(calls, name)

\* Two hardware calls are issued in a row, neither reporting an error.
HwCall2(first, second) ==
    /\ callAfterErr' = (callAfterErr \/ errSeen)
    /\ UNCHANGED errSeen
    /\ calls' = Note(Note(calls, first), second)

NoHwCall == UNCHANGED << errSeen, callAfterErr, calls >>

\* The command returns (or unwinds) with outcome r.
Finish(r) ==
    /\ pc' = "done"
    /\ result' = r

Running(next) ==
    /\ pc' = next
    /\ UNCHANGED result

\* ------------------------------------------------------- blocking adapter
\* BlockingTransmit::do_transmit and BlockingReceive::do_receive: start the
\* operation, then poll it every poll_interval until it completes, the poll
\* time exceeds the timeout, or the radio reports an error.

\* Responses the radio may deliver to a link test: a big-endian index, then a
\* big-endian RSSI, cut to any length (so also too short to decode).
RespIdx == (0..MaxRounds) \cup {256}
RespLens == {0, 3, 4, 5, 6}
RespFrames ==
    {SubSeq(WriteU32(x) \o WriteI16(r), 1, len) :
        x \in RespIdx, r \in RssiVals, len \in RespLens}

\* A deadline test with its comparison the wrong way round.
DeadlinePassed_Swapped(elapsed, timeout) == timeout > elapsed

\* The deadline test of the adapter's poll loop.
DeadlinePassed(elapsed, timeout) == elapsed > timeout

\* The bytes each command hands to do_transmit.
TxPayload ==
    CASE op = "Transmit" -> options.data
      [] op = "LinkTest" -> Slice(buff, 0, IndexLen)
      [] OTHER -> Slice(buff, 0, n)

\* What the adapter leaves for its caller.
Return(at, outcome) ==
    /\ pc' = at
    /\ ret' = outcome

\* start_transmit(data)?
BtStart ==
    /\ pc = "bt_start"
    /\ sentLog' = Append(sentLog, TxPayload)
    /\ \E ok \in BOOLEAN :
        /\ HwCall("start_transmit", ~ok)
        /\ IF ok
           THEN /\ inflight' = inflight \cup {"tx"}
                /\ c' = 0
                /\ pc' = "bt_poll"
                /\ UNCHANGED ret
           ELSE /\ Return("bt_ret", "DeviceError")
                /\ UNCHANGED << inflight, c >>
    /\ UNCHANGED << op, options, i, buff, n, info, link_info, result,
                    interDelays, roundLog, sinkVars, delivered, frames >>

\* check_transmit()?, then the delay of poll_interval and the deadline test.
BtPoll ==
    /\ pc = "bt_poll"
    /\ \E r \in {"done", "pending", "err"} :
        /\ IF r = "pending"
           THEN HwCall2("check_transmit", "delay_us(poll_interval)")
           ELSE HwCall("check_transmit", r = "err")
        /\ CASE r = "done" ->
                  /\ inflight' = inflight \ {"tx"}
                  /\ Return("bt_ret", "Ok")
                  /\ UNCHANGED c
             [] r = "err" ->
                  /\ Return("bt_ret", "DeviceError")
                  /\ UNCHANGED << inflight, c >>
             [] r = "pending" ->
                  /\ c' = c + options.poll_interval
                  /\ IF DeadlinePassed(c', options.timeout)
                     THEN Return("bt_ret", "Timeout")
                     ELSE UNCHANGED << pc, ret >>
                  /\ UNCHANGED inflight
    /\ UNCHANGED << op, options, i, buff, n, info, link_info, result,
                    interDelays, sentLog, roundLog, sinkVars, delivered, frames >>

\* start_receive()?
BrStart ==
    /\ pc = "br_start"
    /\ \E ok \in BOOLEAN :
        /\ HwCall("start_receive", ~ok)
        /\ IF ok
           THEN /\ inflight' = inflight \cup {"rx"}
                /\ c' = 0
                /\ pc' = "br_poll"
                /\ UNCHANGED ret
           ELSE /\ Return("br_ret", "DeviceError")
                /\ UNCHANGED << inflight, c >>
    /\ UNCHANGED << op, options, i, buff, n, info, link_info, result,
                    interDelays, sentLog, roundLog, sinkVars, delivered, frames >>

\* check_receive(true)?, then the delay of poll_interval and the deadline test.
BrPoll ==
    /\ pc = "br_poll"
    /\ \E r \in {"done", "pending", "err"} :
        /\ IF r = "pending"
           THEN HwCall2("check_receive", "delay_us(poll_interval)")
           ELSE HwCall("check_receive", r = "err")
        /\ CASE r = "done" ->
                  /\ inflight' = inflight \ {"rx"}
                  /\ pc' = "br_get"
                  /\ UNCHANGED << c, ret >>
             [] r = "err" ->
                  /\ Return("br_ret", "DeviceError")
                  /\ UNCHANGED << inflight, c >>
             [] r = "pending" ->
                  /\ c' = c + options.poll_interval
                  /\ IF DeadlinePassed(c', options.timeout)
                     THEN Return("br_ret", "Timeout")
                     ELSE UNCHANGED << pc, ret >>
                  /\ UNCHANGED inflight
    /\ UNCHANGED << op, options, i, buff, n, info, link_info, result,
                    interDelays, sentLog, roundLog, sinkVars, delivered, frames >>

\* get_received(buff)?: the frame is copied to the front of buff.
BrGet ==
    /\ pc = "br_get"
    /\ \/ /\ HwCall("get_received", TRUE)
          /\ Return("br_ret", "DeviceError")
          /\ UNCHANGED << buff, n, info, delivered, frames >>
       \/ \E f \in RespFrames, rssi \in RssiVals :
          /\ HwCall("get_received", FALSE)
          /\ buff' = Overwrite(buff, f)
          /\ n' = Len(f)
          /\ info' = rssi
          /\ delivered' = delivered + 1
          /\ UNCHANGED frames
          /\ Return("br_ret", "Ok")
    /\ UNCHANGED << op, options, i, link_info, c, result, inflight,
                    interDelays, sentLog, roundLog, sinkVars >>

\* --------------------------------------------------------------- link test
\* A set_power whose error is dropped.
SetPowerThen_ErrorIgnored(ok, next) == Running(next)

\* radio.set_power(p)?: an error ends the command with that error.
SetPowerThen(ok, next) == IF ok THEN Running(next) ELSE Finish("DeviceError")

\* do_ping_pong

\* if let Some(p) = options.power { radio.set_power(p)?; }
LtSetPower ==
    /\ op = "LinkTest"
    /\ pc = "lt_power"
    /\ IF options.power = None
       THEN /\ NoHwCall
            /\ Running("lt_round")
       ELSE \E ok \in BOOLEAN :
            /\ HwCall("set_power", ~ok)
            /\ SetPowerThen(ok, "lt_round")
    /\ UNCHANGED << op, options, i, buff, n, info, link_info, c, ret, inflight,
                    interDelays, sentLog, roundLog, sinkVars, delivered, frames >>

\* for i in 0..options.rounds: encode the index of the round, or leave the
\* loop and return Ok(link_info).
LtRound ==
    /\ op = "LinkTest"
    /\ pc = "lt_round"
    /\ IF i < options.rounds
       THEN /\ buff' = OverwriteAt(buff, 0, WriteU32(i))
            /\ Running("bt_start")
       ELSE /\ Finish("Ok")
            /\ UNCHANGED buff
    /\ NoHwCall
    /\ UNCHANGED << op, options, i, n, info, link_info, c, ret, inflight,
                    interDelays, sentLog, roundLog, sinkVars, delivered, frames >>

\* radio.do_transmit(&buff[0..n], ...)?
LtSent ==
    /\ op = "LinkTest"
    /\ pc = "bt_ret"
    /\ IF ret = "Ok" THEN Running("br_start") ELSE Finish(ret)
    /\ NoHwCall
    /\ UNCHANGED << op, options, i, buff, n, info, link_info, c, ret, inflight,
                    interDelays, sentLog, roundLog, sinkVars, delivered, frames >>

\* The match with the Timeout arm missing: a timeout is returned as an error.
RecvArm_TimeoutReturns(outcome) ==
    IF outcome = "Ok" THEN "process" ELSE "return"

\* The match with every error absorbed like a timeout.
RecvArm_ErrorContinues(outcome) ==
    IF outcome = "Ok" THEN "process" ELSE "continue"

\* The arms of the match on radio.do_receive(...).
RecvArm(outcome) ==
    CASE outcome = "Ok" -> "process"
      [] outcome = "Timeout" -> "continue"
      [] OTHER -> "return"

\* The index check left out: every decoded response is counted.
IndexMatches_Always(receive_index, idx) == TRUE

\* if receive_index != i { continue; }
IndexMatches(receive_index, idx) == receive_index = idx

\* NetworkEndian::read_u32(&buff[0..n]) panics on fewer than 4 bytes.
ReadU32Panics(len) == len < 4

\* NetworkEndian::read_i16(&buff[4..n]) panics on fewer than 2 bytes.
ReadI16Panics(len) == len - 4 < 2

\* The remote RSSI never parsed.
RemoteRssi_Never(parse_info, b, len) == None

\* match options.parse_info { true => Some(read_i16(&buff[4..n])), false => None }
RemoteRssi(parse_info, b, len) ==
    IF parse_info THEN Some(ReadI16(Slice(b, 4, len))) ELSE None

\* link_info.received += 1 and the two accumulator updates (received never
\* exceeds rounds, so the u32 addition cannot wrap).
Counted(li, local, remote) ==
    [li EXCEPT !.received = li.received + 1,
               !.local_rssi = StatsUpdate(li.local_rssi, local),
               !.remote_rssi = IF remote = None THEN li.remote_rssi
                               ELSE StatsUpdate(li.remote_rssi, remote[1])]

\* The index a response echoes, -1 when it has no 4 bytes to hold one.
EchoOf(frame) == IF Len(frame) >= 4 THEN ReadU32(frame) ELSE -1

\* The rest of the round after do_receive has returned: the match on its
\* outcome, the decoding of the response, the counters and the delay.
LtAwait ==
    /\ op = "LinkTest"
    /\ pc = "br_ret"
    /\ roundLog' = Append(roundLog,
            [rx |-> ret, echo |-> IF ret = "Ok" THEN EchoOf(Slice(buff, 0, n)) ELSE -1])
    /\ CASE RecvArm(ret) = "return" ->
              /\ Finish(ret)
              /\ NoHwCall
              /\ UNCHANGED << i, link_info, interDelays >>
         [] RecvArm(ret) = "continue" ->
              /\ i' = i + 1
              /\ Running("lt_round")
              /\ NoHwCall
              /\ UNCHANGED << link_info, interDelays >>
         [] RecvArm(ret) = "process" ->
              IF ReadU32Panics(n)
              THEN /\ Finish("Panic")
                   /\ NoHwCall
                   /\ UNCHANGED << i, link_info, interDelays >>
              ELSE IF ~IndexMatches(ReadU32(Slice(buff, 0, n)), i)
              THEN /\ i' = i + 1
                   /\ Running("lt_round")
                   /\ NoHwCall
                   /\ UNCHANGED << link_info, interDelays >>
              ELSE IF options.parse_info /\ ReadI16Panics(n)
              THEN /\ Finish("Panic")
                   /\ NoHwCall
                   /\ UNCHANGED << i, link_info, interDelays >>
              ELSE /\ link_info' = Counted(link_info, info,
                                           RemoteRssi(options.parse_info, buff, n))
                   /\ HwCall("delay_us(delay)", FALSE)
                   /\ interDelays' = interDelays + 1
                   /\ i' = i + 1
                   /\ Running("lt_round")
    /\ UNCHANGED << op, options, buff, n, info, c, ret, inflight, sentLog,
                    sinkVars, delivered, frames >>

\* ---------------------------------------------------------------- transmit
\* do_transmit

\* if let Some(p) = options.power { radio.set_power(p)?; }
TxSetPower ==
    /\ op = "Transmit"
    /\ pc = "tx_power"
    /\ IF options.power = None
       THEN /\ NoHwCall
            /\ Running("bt_start")
       ELSE \E ok \in BOOLEAN :
            /\ HwCall("set_power", ~ok)
            /\ SetPowerThen(ok, "bt_start")
    /\ UNCHANGED << op, options, buff, n, info, c, ret, inflight, sentLog,
                    linkVars, sinkVars, delivered, frames >>

\* A transmit that repeats whatever the period.
Repeats_Always(period) == TRUE

\* match &options.period { Some(p) => radio.delay_us(...), None => break }
Repeats(period) == period # None

\* radio.do_transmit(&options.data, ...)?; then the delay of the period and
\* the next transmission, or the break out of the loop.
TxSent ==
    /\ op = "Transmit"
    /\ pc = "bt_ret"
    /\ IF ret # "Ok"
       THEN /\ Finish(ret)
            /\ NoHwCall
       ELSE IF ~Repeats(options.period)
       THEN /\ Finish("Ok")
            /\ NoHwCall
       ELSE /\ Len(sentLog) < MaxFrames
            /\ HwCall("delay_us(period)", FALSE)
            /\ Running("bt_start")
    /\ UNCHANGED << op, options, buff, n, info, c, ret, inflight, sentLog,
                    linkVars, sinkVars, delivered, frames >>

\* ----------------------------------------------------------------- receive
\* do_receive

\* The sink is a fifo: the one PcapOptions::open makes for pcap_pipe, or one
\* that exists at the path given as pcap_file.
SinkIsFifo(kind, path) == kind = "pipe" \/ (kind = "file" /\ path = "fifo")

\* What can go wrong in the open of the fifo's writing end (File::create for
\* pcap_file, OpenOptions::open for pcap_pipe) and in the write of the header.
ConnectFaults(kind) ==
    IF kind = "file" THEN {"none", "create", "header"} ELSE {"none", "open", "header"}

\* What can go wrong before PcapOptions::open waits for anything: creating
\* a regular file or writing its header, creating the fifo.
OpenFaults(kind, path) ==
    CASE kind = "file" /\ path = "regular" -> {"none", "create", "header"}
      [] kind = "pipe" -> {"none", "mkfifo"}
      [] OTHER -> {"none"}

\* PcapOptions::open: only a failure of File::create is returned as an Err;
\* the other failures, and a file given together with a pipe, panic.
PcapOptionsOpen(kind, fault) ==
    CASE kind = "none" -> "Ok(None)"
      [] kind = "both" -> "Panic"
      [] fault = "create" -> "Err"
      [] fault \in {"mkfifo", "open", "header"} -> "Panic"
      [] OTHER -> "Ok(Some)"

\* .expect("Error opening pcap file / pipe") turns an Err into a panic.
Expect(r) == IF r = "Err" THEN "Panic" ELSE r

\* What do_receive does with the outcome of the open.
Opened(r) ==
    CASE r = "Ok(None)" ->
              /\ pcap_writer' = None
              /\ Running("rx_start")
      [] r = "Ok(Some)" ->
              /\ pcap_writer' = Some(options.pcap)
              /\ Running("rx_start")
      [] OTHER ->
              /\ Finish(r)
              /\ UNCHANGED pcap_writer

\* let mut pcap_writer = options.pcap_options.open().expect(...), up to the
\* point where the open of a fifo waits for a reader.
RxOpen ==
    /\ op = "Receive"
    /\ pc = "rx_open"
    /\ \E fault \in OpenFaults(options.pcap, options.path) :
        IF SinkIsFifo(options.pcap, options.path) /\ fault = "none"
        THEN /\ Running("rx_connect")
             /\ UNCHANGED pcap_writer
        ELSE Opened(Expect(PcapOptionsOpen(options.pcap, fault)))
    /\ NoHwCall
    /\ UNCHANGED << op, options, buff, n, info, c, ret, inflight, sentLog,
                    linkVars, capture, clock, delivered, frames >>

\* The open of a fifo's writing end (OpenOptions::new().write(true).open(pipe),
\* or File::create on a path that names a fifo) returns once a reader has
\* opened the fifo; then the header is written.
RxConnect ==
    /\ op = "Receive"
    /\ pc = "rx_connect"
    /\ \E fault \in ConnectFaults(options.pcap) :
        Opened(Expect(PcapOptionsOpen(options.pcap, fault)))
    /\ NoHwCall
    /\ UNCHANGED << op, options, buff, n, info, c, ret, inflight, sentLog,
                    linkVars, capture, clock, delivered, frames >>

\* radio.start_receive()? before the loop
RxStart ==
    /\ op = "Receive"
    /\ pc = "rx_start"
    /\ \E ok \in BOOLEAN :
        /\ HwCall("start_receive", ~ok)
        /\ IF ok
           THEN /\ inflight' = inflight \cup {"rx"}
                /\ Running("rx_check")
           ELSE /\ Finish("DeviceError")
                /\ UNCHANGED inflight
    /\ UNCHANGED << op, options, buff, n, info, c, ret, sentLog,
                    linkVars, sinkVars, delivered, frames >>

\* if radio.check_receive(true)? { ... }
RxCheck ==
    /\ op = "Receive"
    /\ pc = "rx_check"
    /\ \E r \in {"ready", "pending", "err"} :
        /\ HwCall("check_receive", r = "err")
        /\ CASE r = "ready" ->
                  /\ delivered < MaxFrames
                  /\ inflight' = inflight \ {"rx"}
                  /\ Running("rx_get")
             [] r = "pending" ->
                  /\ Running("rx_delay")
                  /\ UNCHANGED inflight
             [] r = "err" ->
                  /\ Finish("DeviceError")
                  /\ UNCHANGED inflight
    /\ UNCHANGED << op, options, buff, n, info, c, ret, sentLog,
                    linkVars, sinkVars, delivered, frames >>

\* A record that carries the whole buffer instead of the frame's bytes.
PcapPacket_WholeBuffer(t, len, b) == [ts |-> t, data |-> b]

\* PcapPacket::new(t, n as u32, &buff[0..n]): the record of one frame
PcapPacket(t, len, b) == [ts |-> t, data |-> Slice(b, 0, len)]

\* A receive that goes on after its frame whatever the option says.
ReceiveContinues_Always(continuous) == TRUE

\* if !options.continuous { return Ok(n); }
ReceiveContinues(continuous) == continuous

\* radio.get_received(&mut buff)? and, with no capture sink, the return of
\* a receive that is not continuous.
RxGet ==
    /\ op = "Receive"
    /\ pc = "rx_get"
    /\ \/ /\ HwCall("get_received", TRUE)
          /\ Finish("DeviceError")
          /\ UNCHANGED << buff, n, info, delivered, frames >>
       \/ \E f \in Payloads, rssi \in RssiVals :
          /\ HwCall("get_received", FALSE)
          /\ buff' = Overwrite(buff, f)
          /\ n' = Len(f)
          /\ info' = rssi
          /\ delivered' = delivered + 1
          /\ frames' = Append(frames, [data |-> f, rssi |-> rssi])
          /\ IF pcap_writer # None
             THEN Running("rx_write")
             ELSE IF ReceiveContinues(options.continuous)
             THEN Running("rx_restart")
             ELSE Finish("Ok")
    /\ UNCHANGED << op, options, c, ret, inflight, sentLog, linkVars, sinkVars >>

\* p.write_packet(&PcapPacket::new(t, n as u32, &buff[0..n])).expect(...):
\* the record is written once the sink takes it; then the return of a
\* receive that is not continuous.
RxWrite ==
    /\ op = "Receive"
    /\ pc = "rx_write"
    /\ \E t \in {clock, clock + 1}, written \in BOOLEAN :
        /\ clock' = t
        /\ IF written
           THEN /\ capture' = Append(capture, PcapPacket(t, n, buff))
                /\ IF ReceiveContinues(options.continuous)
                   THEN Running("rx_restart") ELSE Finish("Ok")
           ELSE /\ Finish("Panic")
                /\ UNCHANGED capture
    /\ NoHwCall
    /\ UNCHANGED << op, options, buff, n, info, c, ret, inflight, sentLog,
                    linkVars, pcap_writer, delivered, frames >>

\* radio.start_receive()? after a frame of a continuous receive
RxRestart ==
    /\ op = "Receive"
    /\ pc = "rx_restart"
    /\ \E ok \in BOOLEAN :
        /\ HwCall("start_receive", ~ok)
        /\ IF ok
           THEN /\ inflight' = inflight \cup {"rx"}
                /\ Running("rx_delay")
           ELSE /\ Finish("DeviceError")
                /\ UNCHANGED inflight
    /\ UNCHANGED << op, options, buff, n, info, c, ret, sentLog,
                    linkVars, sinkVars, delivered, frames >>

\* radio.delay_us(poll_interval) at the end of an iteration of the loop
RxDelay ==
    /\ op = "Receive"
    /\ pc = "rx_delay"
    /\ HwCall("delay_us(poll_interval)", FALSE)
    /\ Running("rx_check")
    /\ UNCHANGED << op, options, buff, n, info, c, ret, inflight, sentLog,
                    linkVars, sinkVars, delivered, frames >>

\* -------------------------------------------------------------------- rssi
\* do_rssi

\* radio.start_receive()?
RssiStart ==
    /\ op = "Rssi"
    /\ pc = "rssi_start"
    /\ \E ok \in BOOLEAN :
        /\ HwCall("start_receive", ~ok)
        /\ IF ok
           THEN /\ inflight' = inflight \cup {"rx"}
                /\ Running("rssi_poll")
           ELSE /\ Finish("DeviceError")
                /\ UNCHANGED inflight
    /\ UNCHANGED << op, options, buff, n, info, c, ret, sentLog,
                    linkVars, sinkVars, delivered, frames >>

\* let rssi = radio.poll_rssi()?
RssiPoll ==
    /\ op = "Rssi"
    /\ pc = "rssi_poll"
    /\ \/ /\ HwCall("poll_rssi", TRUE)
          /\ Finish("DeviceError")
          /\ UNCHANGED info
       \/ \E rssi \in RssiVals :
          /\ calls.count["poll_rssi"] < MaxFrames
          /\ HwCall("poll_rssi", FALSE)
          /\ info' = rssi
          /\ Running("rssi_check")
    /\ UNCHANGED << op, options, buff, n, c, ret, inflight, sentLog,
                    linkVars, sinkVars, delivered, frames >>

\* radio.check_receive(true)? with its answer dropped
RssiCheck ==
    /\ op = "Rssi"
    /\ pc = "rssi_check"
    /\ \E r \in {"ready", "pending", "err"} :
        /\ HwCall("check_receive", r = "err")
        /\ CASE r = "err" ->
                  /\ Finish("DeviceError")
                  /\ UNCHANGED inflight
             [] OTHER ->
                  /\ inflight' = IF r = "ready" THEN inflight \ {"rx"} ELSE inflight
                  /\ Running("rssi_delay")
    /\ UNCHANGED << op, options, buff, n, info, c, ret, sentLog,
                    linkVars, sinkVars, delivered, frames >>

\* A poll that goes round again whatever the option says.
RssiContinues_Always(continuous) == TRUE

\* if !options.continuous { break; }
RssiContinues(continuous) == continuous

\* radio.delay_us(period), then the break of a poll that is not continuous
RssiDelay ==
    /\ op = "Rssi"
    /\ pc = "rssi_delay"
    /\ HwCall("delay_us(period)", FALSE)
    /\ IF RssiContinues(options.continuous) THEN Running("rssi_poll") ELSE Finish("Ok")
    /\ UNCHANGED << op, options, buff, n, info, c, ret, inflight, sentLog,
                    linkVars, sinkVars, delivered, frames >>

\* -------------------------------------------------------------------- echo
\* do_echo

\* if let Some(p) = options.power { radio.set_power(p)?; }
EchoSetPower ==
    /\ op = "Echo"
    /\ pc = "echo_power"
    /\ IF options.power = None
       THEN /\ NoHwCall
            /\ Running("echo_start")
       ELSE \E ok \in BOOLEAN :
            /\ HwCall("set_power", ~ok)
            /\ SetPowerThen(ok, "echo_start")
    /\ UNCHANGED << op, options, buff, n, info, c, ret, inflight, sentLog,
                    linkVars, sinkVars, delivered, frames >>

\* radio.start_receive()?
EchoStart ==
    /\ op = "Echo"
    /\ pc = "echo_start"
    /\ \E ok \in BOOLEAN :
        /\ HwCall("start_receive", ~ok)
        /\ IF ok
           THEN /\ inflight' = inflight \cup {"rx"}
                /\ Running("echo_check")
           ELSE /\ Finish("DeviceError")
                /\ UNCHANGED inflight
    /\ UNCHANGED << op, options, buff, n, info, c, ret, sentLog,
                    linkVars, sinkVars, delivered, frames >>

\* if radio.check_receive(true)? { ... }
EchoCheck ==
    /\ op = "Echo"
    /\ pc = "echo_check"
    /\ \E r \in {"ready", "pending", "err"} :
        /\ HwCall("check_receive", r = "err")
        /\ CASE r = "ready" ->
                  /\ delivered < MaxFrames
                  /\ inflight' = inflight \ {"rx"}
                  /\ Running("echo_get")
             [] r = "pending" ->
                  /\ Running("echo_delay")
                  /\ UNCHANGED inflight
             [] r = "err" ->
                  /\ Finish("DeviceError")
                  /\ UNCHANGED inflight
    /\ UNCHANGED << op, options, buff, n, info, c, ret, sentLog,
                    linkVars, sinkVars, delivered, frames >>

\* NetworkEndian::write_i16(&mut buff[n..], ...) panics when buff has fewer
\* than 2 bytes after the frame.
WriteI16Panics(capacity, len) == capacity - len < 2

\* radio.get_received(&mut buff)?, the RSSI suffix when append_info is set,
\* and the turnaround delay.
EchoGet ==
    /\ op = "Echo"
    /\ pc = "echo_get"
    /\ \/ /\ HwCall("get_received", TRUE)
          /\ Finish("DeviceError")
          /\ UNCHANGED << buff, n, info, delivered, frames >>
       \/ \E f \in Payloads, rssi \in RssiVals :
          /\ info' = rssi
          /\ delivered' = delivered + 1
          /\ frames' = Append(frames, [data |-> f, rssi |-> rssi])
          /\ IF ~options.append_info
             THEN /\ buff' = Overwrite(buff, f)
                  /\ n' = Len(f)
                  /\ HwCall2("get_received", "delay_us(delay)")
                  /\ Running("bt_start")
             ELSE IF WriteI16Panics(Len(buff), Len(f))
             THEN /\ buff' = Overwrite(buff, f)
                  /\ n' = Len(f)
                  /\ HwCall("get_received", FALSE)
                  /\ Finish("Panic")
             ELSE /\ buff' = OverwriteAt(Overwrite(buff, f), Len(f), WriteI16(rssi))
                  /\ n' = Len(f) + 2
                  /\ HwCall2("get_received", "delay_us(delay)")
                  /\ Running("bt_start")
    /\ UNCHANGED << op, options, c, ret, inflight, sentLog, linkVars, sinkVars >>

\* radio.do_transmit(&buff[..n], ...)?; then the return of an echo that is
\* not continuous.
EchoSent ==
    /\ op = "Echo"
    /\ pc = "bt_ret"
    /\ IF ret # "Ok"
       THEN Finish(ret)
       ELSE IF ~options.continuous
       THEN Finish("Ok")
       ELSE Running("echo_delay")
    /\ NoHwCall
    /\ UNCHANGED << op, options, buff, n, info, c, ret, inflight, sentLog,
                    linkVars, sinkVars, delivered, frames >>

\* radio.delay_us(poll_interval) at the end of an iteration of the loop
EchoDelay ==
    /\ op = "Echo"
    /\ pc = "echo_delay"
    /\ HwCall("delay_us(poll_interval)", FALSE)
    /\ Running("echo_check")
    /\ UNCHANGED << op, options, buff, n, info, c, ret, inflight, sentLog,
                    linkVars, sinkVars, delivered, frames >>

\* ------------------------------------------------------------ specification

Next ==
    \/ BtStart
    \/ BtPoll
    \/ BrStart
    \/ BrPoll
    \/ BrGet
    \/ LtSetPower
    \/ LtRound
    \/ LtSent
    \/ LtAwait
    \/ TxSetPower
    \/ TxSent
    \/ RxOpen
    \/ RxConnect
    \/ RxStart
    \/ RxCheck
    \/ RxGet
    \/ RxWrite
    \/ RxRestart
    \/ RxDelay
    \/ RssiStart
    \/ RssiPoll
    \/ RssiCheck
    \/ RssiDelay
    \/ EchoSetPower
    \/ EchoStart
    \/ EchoCheck
    \/ EchoGet
    \/ EchoSent
    \/ EchoDelay

Spec == Init /\ [][Next]_vars

\* The command is inside a call on the fifo that returns only when the
\* process at the other end acts: the open of the writing end (File::create
\* on a path that names a fifo, the first thing the command does, or the open
\* of the fifo just made) waits for a reader to open the fifo, a write waits
\* for the reader to make room.
WaitsForReader ==
    \/ pc = "rx_open" /\ options.pcap = "file" /\ options.path = "fifo"
    \/ pc = "rx_connect"
    \/ pc = "rx_write" /\ SinkIsFifo(options.pcap, options.path)

\* The thread that runs the command keeps running: whenever the command has a
\* next step that does not wait for the reader of a fifo, it eventually takes
\* it. Nothing obliges the reader of the fifo to act.
FairSpec == Init /\ [][Next]_vars /\ WF_vars(~WaitsForReader /\ Next)

\* ------------------------------------------------------------------ claims

\* A link-test response too short for the fields the test decodes from it.
TooShort == n < 4 \/ (options.parse_info /\ n < 6)

\* Every receive of the rounds finished so far timed out.
AllTimedOut == \A k \in 1..Len(roundLog) : roundLog[k].rx = "Timeout"

\* The rounds whose receive succeeded with the round's own index echoed.
EchoedRounds ==
    {k \in 1..Len(roundLog) : roundLog[k].rx = "Ok" /\ roundLog[k].echo = k - 1}

\* The command runs in a mode that is neither continuous nor repeating.
NonRepeating ==
    \/ op = "Transmit" /\ options.period = None
    \/ op \in {"Receive", "Rssi", "Echo"} /\ ~options.continuous
    \/ op = "LinkTest"

\* C1: in a link test the inter-round delay is performed exactly once in
\* every round, whatever the round's outcome: whenever the loop is at the
\* head of round i, i delays of options.delay have been performed.
C1_DelayEveryRound ==
    (op = "LinkTest" /\ pc = "lt_round") => interDelays = i

\* C2: a link-test response too short to decode is a skipped round: the
\* test does not crash, received and both accumulators are unchanged, and
\* the test goes on with the next round.
C2_ShortResponseSkipped ==
    [][(op = "LinkTest" /\ pc = "br_ret" /\ ret = "Ok" /\ TooShort)
        => (pc' = "lt_round" /\ i' = i + 1 /\ result' = "none"
            /\ link_info' = link_info)]_vars

\* C3: every command run in a mode that is neither continuous nor
\* repeating eventually returns a definite outcome, whatever the radio does.
C3_Terminates == NonRepeating => <>(pc = "done")

\* C4 as claimed: a Timeout of the blocking transmit of round i is absorbed;
\* the test goes on to round i + 1 and does not return an error.
C4_TransmitTimeoutAbsorbed ==
    [][(op = "LinkTest" /\ pc = "bt_ret" /\ ret = "Timeout")
        => (pc' = "lt_round" /\ i' = i + 1 /\ result' = "none")]_vars

\* C4 as amended: a Timeout of the blocking receive of round i is absorbed
\* (no error is returned, the round counts nothing, round i + 1 is next);
\* a Timeout or a device error of the blocking transmit and a device error of
\* the blocking receive abort the test with that error; a summary is
\* returned only after all rounds.
C4_ReceiveTimeoutAbsorbed ==
    [][/\ (op = "LinkTest" /\ pc = "br_ret" /\ ret = "Timeout")
            => (pc' = "lt_round" /\ i' = i + 1 /\ result' = "none"
                /\ link_info' = link_info)
       /\ (op = "LinkTest" /\ pc = "bt_ret" /\ ret # "Ok")
            => (pc' = "done" /\ result' = ret)
       /\ (op = "LinkTest" /\ pc = "br_ret" /\ ret = "DeviceError")
            => (pc' = "done" /\ result' = "DeviceError")
       /\ (op = "LinkTest" /\ result' = "Ok") => i = options.rounds]_vars

\* A link test has returned its summary although a receive timed out.
C4_Witness ==
    /\ op = "LinkTest"
    /\ result = "Ok"
    /\ \E k \in 1..Len(roundLog) : roundLog[k].rx = "Timeout"

\* C5: against a peer that never responds (every blocking receive times
\* out) the link test transmits the indices 0, 1, ... in order, counts
\* nothing, and returns a summary with sent = N after exactly N
\* transmissions.
C5_SilentPeer ==
    (op = "LinkTest" /\ AllTimedOut /\ result \in {"none", "Ok"}) =>
        /\ \A k \in 1..Len(sentLog) :
              Len(sentLog[k]) = 4 /\ ReadU32(sentLog[k]) = k - 1
        /\ link_info.sent = options.rounds
        /\ link_info.received = 0
        /\ link_info.local_rssi = << >>
        /\ link_info.remote_rssi = << >>
        /\ result = "Ok" => Len(sentLog) = options.rounds

\* A link test of MaxRounds rounds has returned with every receive timed out.
C5_Witness ==
    /\ op = "LinkTest"
    /\ result = "Ok"
    /\ options.rounds = MaxRounds
    /\ Len(roundLog) = MaxRounds
    /\ AllTimedOut

\* C6: a returned summary has sent = N and received <= N, and received is
\* the number of rounds whose receive succeeded with the round's index
\* echoed.
C6_SummaryCounts ==
    (op = "LinkTest" /\ result = "Ok") =>
        /\ link_info.sent = options.rounds
        /\ link_info.received <= options.rounds
        /\ Len(roundLog) = options.rounds
        /\ link_info.received = Cardinality(EchoedRounds)

\* A summary was returned after a counted round and a round whose response
\* echoed another index.
C6_Witness ==
    /\ op = "LinkTest"
    /\ result = "Ok"
    /\ link_info.received >= 1
    /\ \E k \in 1..Len(roundLog) :
          roundLog[k].rx = "Ok" /\ roundLog[k].echo # k - 1

\* C7: each round is counted if and only if its own response echoes the
\* round's index: a round whose response echoes it adds one to received and
\* one sample to the local accumulator, any other round changes nothing.
C7_CountedIffEchoed ==
    [][(op = "LinkTest" /\ pc = "br_ret") =>
        IF ret = "Ok" /\ EchoOf(Slice(buff, 0, n)) = i
        THEN /\ link_info'.received = link_info.received + 1
             /\ Len(link_info'.local_rssi) = Len(link_info.local_rssi) + 1
        ELSE link_info' = link_info]_vars

\* Every round of the test was answered with the round's own index.
Cooperative ==
    /\ Len(roundLog) = options.rounds
    /\ \A k \in 1..Len(roundLog) : roundLog[k].rx = "Ok" /\ roundLog[k].echo = k - 1

\* C8: at every point of a link test the local accumulator holds received
\* samples and the remote accumulator holds received samples with
\* parse_info and none without; with parse_info and a cooperative peer the
\* summary has received = N and N samples in both.
C8_AccumulatorCounts ==
    op = "LinkTest" =>
        /\ Len(link_info.local_rssi) = link_info.received
        /\ Len(link_info.remote_rssi) =
              IF options.parse_info THEN link_info.received ELSE 0
        /\ (result = "Ok" /\ options.parse_info /\ Cooperative) =>
              /\ link_info.received = options.rounds
              /\ Len(link_info.local_rssi) = options.rounds
              /\ Len(link_info.remote_rssi) = options.rounds

\* A link test with parse_info has returned with every one of MaxRounds
\* rounds counted.
C8_Witness ==
    /\ op = "LinkTest"
    /\ result = "Ok"
    /\ options.parse_info
    /\ options.rounds = MaxRounds
    /\ link_info.received = MaxRounds
    /\ Len(link_info.remote_rssi) = MaxRounds

\* C9: once a capability call has reported a device error, no further
\* hardware call is issued, and the command returns that error (the error
\* is on its way out of the blocking adapter, or the command has returned
\* it).
C9_DeviceErrorHalts ==
    /\ ~callAfterErr
    /\ errSeen =>
          \/ pc = "done" /\ result = "DeviceError"
          \/ pc \in {"bt_ret", "br_ret"} /\ ret = "DeviceError"

\* A link test has returned a device error with at least one round not run.
C9_Witness ==
    /\ op = "LinkTest"
    /\ errSeen
    /\ pc = "done"
    /\ result = "DeviceError"
    /\ i + 1 < options.rounds

\* C10: at most one hardware operation is started and not yet completed.
C10_OneInFlight == Cardinality(inflight) <= 1

\* C11: in Echo with append_info set, a frame that leaves fewer than 2 spare
\* bytes in the payload buffer is handled as a defined outcome: the command
\* never crashes.
C11_CapacityChecked ==
    (op = "Echo" /\ options.append_info) => result # "Panic"

\* The frames echoed so far are the first frames delivered: frame k is the
\* one whose echo is payload k handed to the blocking transmit.
EchoedSoFar == 1..Len(sentLog)

\* C12: in Echo the bytes handed to the blocking transmit for a delivered
\* frame are the frame's payload, followed, when append_info is set, by
\* exactly 2 bytes that decode as a big-endian signed 16-bit integer to the
\* frame's RSSI; and the call made just before each transmit is started is
\* the turnaround delay, one such delay per transmit.
C12_EchoedBytes ==
    op = "Echo" =>
        /\ Len(sentLog) <= Len(frames)
        /\ \A k \in EchoedSoFar :
              LET p == frames[k].data
                  sent == sentLog[k] IN
              IF options.append_info
              THEN /\ Len(sent) = Len(p) + 2
                   /\ SubSeq(sent, 1, Len(p)) = p
                   /\ ReadI16(SubSeq(sent, Len(p) + 1, Len(p) + 2)) = frames[k].rssi
              ELSE sent = p
        /\ pc = "bt_start" => calls.last = "delay_us(delay)"
        /\ calls.count["delay_us(delay)"] =
              Len(sentLog) + (IF pc = "bt_start" THEN 1 ELSE 0)

\* Two frames have been echoed with the RSSI suffix, the second of the
\* longest length and with a negative RSSI.
C12_Witness ==
    /\ op = "Echo"
    /\ options.append_info
    /\ Len(sentLog) = 2
    /\ Len(frames[2].data) = MaxPayload
    /\ frames[2].rssi < 0

\* C13: a Receive that is not continuous fetches at most one frame; once
\* the frame is fetched the fetch stays the command's last hardware call (no
\* receive start, check, get or delay follows): the command is writing the
\* frame to the capture sink or has ended, and when it has ended it has
\* returned the frame's length unless that write failed; it returns success
\* only after a frame.
C13_OneFrameThenReturn ==
    (op = "Receive" /\ ~options.continuous) =>
        /\ delivered <= 1
        /\ calls.count["start_receive"] <= 1
        /\ delivered = 1 =>
              /\ calls.last = "get_received"
              /\ pc \in {"done", "rx_write"}
              /\ pc = "rx_write" => (pcap_writer # None /\ result = "none")
              /\ pc = "done" => result \in {"Ok", "Panic"}
              /\ result = "Panic" => (pcap_writer # None /\ Len(capture) = 0)
              /\ result = "Ok" => n = Len(frames[1].data)
        /\ result = "Ok" => delivered = 1

\* A Receive that is not continuous has returned the length of a frame of
\* the longest length.
C13_Witness ==
    /\ op = "Receive"
    /\ ~options.continuous
    /\ pc = "done"
    /\ result = "Ok"
    /\ delivered = 1
    /\ n = MaxPayload

\* C14: in Receive with a capture sink open, the records written to the
\* sink are the delivered frames in arrival order, one record per frame,
\* each carrying the frame's bytes (all the frames, except the one frame
\* whose write is under way or has failed, which ends the command), and
\* the timestamps of the records never decrease.
C14_SinkRecords ==
    (op = "Receive" /\ pcap_writer # None) =>
        /\ Len(capture) =
              Len(frames) - (IF pc = "rx_write" \/ result = "Panic" THEN 1 ELSE 0)
        /\ \A k \in 1..Len(capture) : capture[k].data = frames[k].data
        /\ \A k \in 2..Len(capture) : capture[k].ts >= capture[k - 1].ts

\* Two frames of different bytes were recorded at different times, the
\* first shorter than the buffer.
C14_Witness ==
    /\ op = "Receive"
    /\ pcap_writer # None
    /\ Len(capture) = 2
    /\ capture[2].ts > capture[1].ts
    /\ capture[1].data # capture[2].data
    /\ Len(capture[1].data) < options.cap

\* C15: when the capture sink cannot be opened, Receive ends, before any
\* radio call, with the outcome CaptureIoError returned to its caller.
C15_OpenFailureTyped ==
    (op = "Receive" /\ options.pcap \in {"file", "pipe"}
        /\ pc = "done" /\ calls.last = "none")
    => result = "CaptureIoError"

\* C16: in Transmit, Echo and Link-Test with a power given, set_power is
\* called at most once and is the first hardware call (whenever any call
\* has been made, set_power has been called exactly once); and when that
\* call reports a device error the command has returned the error with no
\* transmit or receive call issued.
C16_PowerOnceFirst ==
    (op \in {"Transmit", "Echo", "LinkTest"} /\ options.power # None) =>
        /\ calls.count["set_power"] <= 1
        /\ calls.last # "none" => calls.count["set_power"] = 1
        /\ (errSeen /\ calls.last = "set_power") =>
              /\ pc = "done"
              /\ result = "DeviceError"
              /\ sentLog = << >>
              /\ inflight = {}
              /\ delivered = 0
              /\ calls.count["start_receive"] = 0

\* An Echo with a power given has set the power once and echoed two frames.
C16_Witness ==
    /\ op = "Echo"
    /\ options.power # None
    /\ calls.count["set_power"] = 1
    /\ Len(sentLog) = 2

\* C17: a Transmit with no period hands its data to the blocking transmit
\* at most once, exactly once by the time it returns unless set_power
\* failed, never delays for a period, and returns success exactly when that
\* transmit succeeded.
C17_SingleTransmit ==
    (op = "Transmit" /\ options.period = None) =>
        /\ Len(sentLog) <= 1
        /\ calls.count["delay_us(period)"] = 0
        /\ pc = "done" =>
              /\ Len(sentLog) = 1 \/ (errSeen /\ calls.last = "set_power")
              /\ Len(sentLog) = 1 =>
                    /\ sentLog[1] = options.data
                    /\ result = ret
              /\ result = "Ok" <=> (Len(sentLog) = 1 /\ ret = "Ok")

\* A Transmit with no period has returned success after its one transmit.
C17_Witness ==
    /\ op = "Transmit"
    /\ options.period = None
    /\ pc = "done"
    /\ result = "Ok"
    /\ Len(sentLog) = 1
    /\ Len(options.data) = MaxPayload

\* The adapter is between its start and its return.
Polling == pc \in {"bt_poll", "br_poll"}

\* The adapter has just returned the given outcome.
Returned(outcome) ==
    \/ pc \in {"bt_ret", "br_ret"} /\ ret = outcome
    \/ outcome = "Ok" /\ pc = "br_get"

\* C18: the elapsed time of the blocking adapter is its number of pending
\* polls times the poll interval; no poll is issued once the elapsed time is
\* past the timeout; Timeout is returned only when the elapsed time has
\* reached the timeout, so an operation that completes at its k-th poll
\* with k * poll_interval < timeout is returned as a success, after exactly
\* k polls.
C18_AdapterDeadline ==
    /\ Polling =>
          /\ c = calls.polls * options.poll_interval
          /\ c <= options.timeout
    /\ Returned("Timeout") =>
          /\ c = calls.polls * options.poll_interval
          /\ c >= options.timeout
          /\ c - options.poll_interval <= options.timeout
    /\ Returned("Ok") =>
          /\ calls.polls >= 1
          /\ c = (calls.polls - 1) * options.poll_interval
          /\ c <= options.timeout

\* An operation completed at its second poll, before the timeout, and the
\* adapter returned success.
C18_Witness ==
    /\ op = "Transmit"
    /\ Returned("Ok")
    /\ calls.polls = 2
    /\ calls.polls * options.poll_interval < options.timeout

\* C19: in a continuous Echo every readiness check is made against a
\* receive started after the most recent retransmission: when the check is
\* about to be made, start_receive has been called once at the start and
\* once more after each frame echoed.
C19_ListenAfterEcho ==
    (op = "Echo" /\ options.continuous /\ pc = "echo_check") =>
        calls.count["start_receive"] = Len(sentLog) + 1

\* C20: Rssi-Poll calls start_receive once, before anything else; each
\* iteration is one poll_rssi, then one check_receive whose answer is
\* dropped (no frame is ever fetched), then one delay of the period; a
\* poll that is not continuous runs one iteration and returns, and a
\* continuous poll never returns success.
C20_RssiLoop ==
    op = "Rssi" =>
        /\ calls.count["start_receive"] <= 1
        /\ calls.last # "none" => calls.count["start_receive"] = 1
        /\ delivered = 0
        /\ frames = << >>
        /\ pc = "rssi_poll" => calls.last \in {"start_receive", "delay_us(period)"}
        /\ pc = "rssi_check" => calls.last = "poll_rssi"
        /\ pc = "rssi_delay" => calls.last = "check_receive"
        /\ calls.count["poll_rssi"] =
              calls.count["delay_us(period)"]
                  + (IF calls.last \in {"poll_rssi", "check_receive"} THEN 1 ELSE 0)
        /\ ~options.continuous => calls.count["poll_rssi"] <= 1
        /\ (pc = "done" /\ result = "Ok") =>
              /\ ~options.continuous
              /\ calls.last = "delay_us(period)"
              /\ calls.count["poll_rssi"] = 1
              /\ calls.count["delay_us(period)"] = 1
        /\ (pc = "done" /\ result # "Ok") => (result = "DeviceError" /\ errSeen)

\* A continuous poll has run two whole iterations.
C20_Witness ==
    /\ op = "Rssi"
    /\ options.continuous
    /\ pc = "rssi_poll"
    /\ calls.count["poll_rssi"] = 2
    /\ calls.count["delay_us(period)"] = 2

====
